---- MODULE Spec2Model ----
(***************************************************************************)
(* State-machine model of BackupManager (src/backup.py): the key file      *)
(* accessors, backup_device, decrypt_backup and restore_backup, run        *)
(* against a local file system and the external device bridge (adb).      *)
(* Every handler is one atomic action; the outcome of each external step   *)
(* (adb, file I/O) is chosen nondeterministically.                         *)
(***************************************************************************)
EXTENDS Integers, Sequences, FiniteSets, TLC

VARIABLES fs, call, cmds, reports, encrypted_path, output_path,
          stdout, vcard_content, sms_list

vars == <<fs, call, cmds, reports, encrypted_path, output_path,
          stdout, vcard_content, sms_list>>

(* ------------------------------ bounds -------------------------------- *)
\* Distinct values of datetime.now().strftime("%Y%m%d_%H%M%S"): local
\* wall-clock time at one-second resolution, which two calls may share.
MaxTime == 1
\* Largest number of top-level entries of a pulled directory.
MaxEntries == 2
\* Number of distinct Fernet keys.
NumKeys == 2
\* Largest number of records of a message export.
MaxMsgs == 11
\* Longest path prefix in front of the final ".enc".
MaxPrefix == 5
\* Largest number of lexemes in the output of the contacts query.
MaxContactOutput == 6
\* Largest number of lexemes in the output of the message query.
MaxSmsOutput == 5

\* Progress is printed every 10 restored messages (src/backup.py:326).
ProgressEvery == 10

Keys == 1..NumKeys
Data == 0..MaxEntries
Times == 1..MaxTime

(* --------------------------- str operations --------------------------- *)
\* str.endswith
EndsWith(s, suf) ==
    /\ Len(s) >= Len(suf)
    /\ SubSeq(s, Len(s) - Len(suf) + 1, Len(s)) = suf

MatchAt(s, i, pat) ==
    /\ i + Len(pat) - 1 <= Len(s)
    /\ SubSeq(s, i, i + Len(pat) - 1) = pat

RECURSIVE ReplaceFrom(_, _, _, _)
ReplaceFrom(s, i, old, new) ==
    IF i > Len(s) THEN <<>>
    ELSE IF MatchAt(s, i, old)
         THEN new \o ReplaceFrom(s, i + Len(old), old, new)
         ELSE <<s[i]>> \o ReplaceFrom(s, i + 1, old, new)

\* str.replace(old, new): every non-overlapping occurrence, leftmost first.
Replace(s, old, new) == ReplaceFrom(s, 1, old, new)

DotEnc == <<".", "e", "n", "c">>
DotZip == <<".", "z", "i", "p">>
DotJson == <<".", "j", "s", "o", "n">>
DotVcf == <<".", "v", "c", "f">>

(* ------------------------------- paths -------------------------------- *)
\* A path is <<name, t>>: the characters of its file name, shortened to
\* one letter in front of the suffix, and the timestamp the name holds
\* (0 when it holds none).
\*   k.key  backup_key.key            d      dest_folder ("backups")
\*   t      temp_backup_<id>_<t>      t.zip  temp_backup_<id>_<t>.zip
\*   b.enc  backup_<id>_<t>.enc       r      temp_restore_<id>_<t>
\*   o.enc  an encrypted archive that was on disk before the first call
\*   s.json sms_<id>_<t>.json         c.vcf  contacts_<id>_<t>.vcf
KeyPath == <<<<"k", ".", "k", "e", "y">>, 0>>
DestFolder == <<<<"d">>, 0>>
TempDir(t) == <<<<"t">>, t>>
TempZip(t) == <<<<"t", ".", "z", "i", "p">>, t>>
EncPath(t) == <<<<"b", ".", "e", "n", "c">>, t>>
ExtractDir(t) == <<<<"r">>, t>>
OldEnc == <<<<"o", ".", "e", "n", "c">>, 0>>
SmsPath == <<<<"s", ".", "j", "s", "o", "n">>, 0>>
VcfPath == <<<<"c", ".", "v", "c", "f">>, 0>>
NoPath == <<<<>>, 0>>

\* encrypted_path.replace(".enc", ".zip")
DefaultOut(p) == <<Replace(p[1], DotEnc, DotZip), p[2]>>

EncPaths == {EncPath(t) : t \in Times} \cup {OldEnc}
ZipPaths == {DefaultOut(p) : p \in EncPaths}
Paths ==
    {KeyPath, DestFolder, SmsPath, VcfPath} \cup EncPaths \cup ZipPaths
    \cup {TempDir(t) : t \in Times} \cup {TempZip(t) : t \in Times}
    \cup {ExtractDir(t) : t \in Times}

(* --------------------------- file contents ---------------------------- *)
Absent == [kind |-> "absent", k |-> 0, d |-> 0]
\* A directory with d top-level entries.
Dir(d) == [kind |-> "dir", k |-> 0, d |-> d]
\* A regular file pulled from the device.
RawFile == [kind |-> "file", k |-> 0, d |-> 0]
\* A zip archive of a directory with d top-level entries.
Zip(d) == [kind |-> "zip", k |-> 0, d |-> d]
\* The bytes of Fernet key k.
Key(k) == [kind |-> "key", k |-> k, d |-> 0]
\* A Fernet token: c encrypted and authenticated under key k.
Enc(k, c) == [kind |-> "enc", k |-> k, d |-> c.d]
\* A file whose write did not complete, or bytes that are no key, token or
\* archive (a corrupted or tampered file).
Partial == [kind |-> "partial", k |-> 0, d |-> 0]
\* A message export: a JSON array of d records.
Json(d) == [kind |-> "json", k |-> 0, d |-> d]
\* A contact export.
Vcf == [kind |-> "vcf", k |-> 0, d |-> 0]
\* A file of zero bytes.
Empty == [kind |-> "empty", k |-> 0, d |-> 0]

\* os.path.exists
Exists(f, p) == f[p].kind # "absent"
IsDir(f, p) == f[p].kind = "dir"
Put(f, p, c) == [f EXCEPT ![p] = c]

\* Fernet(key) raises unless key is 32 url-safe base64-encoded bytes.
ValidKey(c) == c.kind = "key"
\* Fernet.decrypt raises InvalidToken unless the token was made under key.
DecryptOk(key, token) == token.kind = "enc" /\ token.k = key.k
Decrypt(key, token) == Zip(token.d)

\* open(path, "wb") then write(data): the open may fail (nothing changes),
\* the write may fail after the open truncated the file, or both succeed.
WriteFile(f, p, data, fault) ==
    CASE fault = "open" -> [fs |-> f, ok |-> FALSE]
      [] fault = "write" -> [fs |-> Put(f, p, Partial), ok |-> FALSE]
      [] OTHER -> [fs |-> Put(f, p, data), ok |-> TRUE]

(* ------------------------------ KeyStore ------------------------------ *)
\* Fernet.generate_key() followed by the write of the key file.
\* Returns [fs, key, ok]; ok = FALSE stands for a raised exception.
GenerateKey(f, key_path, gen, fault) ==
    LET w == WriteFile(f, key_path, Key(gen), fault)
    IN  [fs |-> w.fs, key |-> Key(gen), ok |-> w.ok]

\* Mutant of GetKey: a new key is generated on every call.
GetKey_Rotate(f, gen, fault) == GenerateKey(f, KeyPath, gen, fault)

\* BackupManager._get_key
GetKey(f, gen, fault) ==
    IF Exists(f, KeyPath)
    THEN [fs |-> f, key |-> f[KeyPath], ok |-> TRUE]
    ELSE GenerateKey(f, KeyPath, gen, fault)

\* BackupManager._load_key: an existing file is opened with mode "wb",
\* which truncates it, and is read afterwards.
LoadKey(f, key_path, gen, fault) ==
    IF ~Exists(f, key_path)
    THEN GenerateKey(f, key_path, gen, fault)
    ELSE IF fault = "open"
         THEN [fs |-> f, key |-> Absent, ok |-> FALSE]
         ELSE [fs |-> Put(f, key_path, Empty), key |-> Empty, ok |-> TRUE]

(* ---------------------------- backup_device --------------------------- *)
\* adb pull source_path temp_dir. A directory on the device arrives as a
\* directory, a regular file as a regular file named temp_dir; a failing
\* pull may leave a partly filled directory behind.
Pull(f, t, src, d, fault) ==
    IF src = "dir" /\ Exists(f, TempDir(t)) /\ ~IsDir(f, TempDir(t))
    THEN [fs |-> f, ok |-> FALSE]
    ELSE CASE fault = "pull" -> [fs |-> f, ok |-> FALSE]
           [] fault = "pull_partial" ->
                [fs |-> Put(f, TempDir(t), IF src = "dir" THEN Dir(0) ELSE RawFile),
                 ok |-> FALSE]
           [] OTHER ->
                [fs |-> Put(f, TempDir(t), IF src = "dir" THEN Dir(d) ELSE RawFile),
                 ok |-> TRUE]

\* shutil.make_archive(temp_dir, 'zip', temp_dir)
MakeArchive(f, t, fault) ==
    IF ~IsDir(f, TempDir(t)) THEN [fs |-> f, ok |-> FALSE]
    ELSE CASE fault = "archive" -> [fs |-> f, ok |-> FALSE]
           [] fault = "archive_partial" ->
                [fs |-> Put(f, TempZip(t), Partial), ok |-> FALSE]
           [] OTHER ->
                [fs |-> Put(f, TempZip(t), Zip(f[TempDir(t)].d)), ok |-> TRUE]

KeyFault(fault) ==
    CASE fault = "key_open" -> "open"
      [] fault = "key_write" -> "write"
      [] OTHER -> "none"

EncFault(fault) ==
    CASE fault = "enc_open" -> "open"
      [] fault = "enc_write" -> "write"
      [] OTHER -> "none"

\* What an except clause returns: None, with the step that raised.
Failed(f, step) == [fs |-> f, result |-> "fail", out |-> NoPath, step |-> step]

\* Steps 3 and following of the try block: key, encryption, artifact.
BackupEncrypt(f, t, gen, fault) ==
    LET g == GetKey(f, gen, KeyFault(fault))
    IN  IF ~g.ok THEN Failed(g.fs, "key")
        ELSE IF ~ValidKey(g.key) THEN Failed(g.fs, "fernet")
        ELSE LET w == WriteFile(g.fs, EncPath(t),
                                Enc(g.key.k, g.fs[TempZip(t)]), EncFault(fault))
             IN  IF w.ok
                 THEN [fs |-> w.fs, result |-> "ok", out |-> EncPath(t),
                       step |-> "none"]
                 ELSE Failed(w.fs, "write")

\* The try block with its except clauses: [fs, result, out, step].
BackupTry(f, t, src, d, gen, fault) ==
    LET p == Pull(f, t, src, d, fault)
    IN  IF ~p.ok THEN Failed(p.fs, "pull")
        ELSE LET a == MakeArchive(p.fs, t, fault)
             IN  IF ~a.ok THEN Failed(a.fs, "archive")
                 ELSE BackupEncrypt(a.fs, t, gen, fault)

\* The finally block: shutil.rmtree raises on a path that is no directory,
\* and the removal of the archive is then skipped.
BackupFinally(f, t) ==
    IF Exists(f, TempDir(t)) /\ ~IsDir(f, TempDir(t))
    THEN [fs |-> f, raised |-> TRUE]
    ELSE [fs |-> Put(Put(f, TempDir(t), Absent), TempZip(t), Absent),
          raised |-> FALSE]

\* backup_device(source_path, dest_folder) at timestamp t:
\* [fs, result, out, step], step the first step that raised.
BackupDevice(f, t, src, d, gen, fault) ==
    IF ~Exists(f, DestFolder) /\ fault = "makedirs"
    THEN [fs |-> f, result |-> "raise", out |-> NoPath, step |-> "makedirs"]
    ELSE LET f1 == IF Exists(f, DestFolder) THEN f ELSE Put(f, DestFolder, Dir(0))
             b == BackupTry(f1, t, src, d, gen, fault)
             c == BackupFinally(b.fs, t)
         IN  IF c.raised
             THEN [fs |-> c.fs, result |-> "raise", out |-> NoPath,
                   step |-> IF b.step = "none" THEN "cleanup" ELSE b.step]
             ELSE [fs |-> c.fs, result |-> b.result, out |-> b.out,
                   step |-> b.step]

(* --------------------------- decrypt_backup --------------------------- *)
DecFault(fault) ==
    CASE fault = "dec_open" -> "open"
      [] fault = "dec_write" -> "write"
      [] OTHER -> "none"

\* The write of the decrypted bytes and the return (lines 112-119).
DecryptWrite(f, key, enc_path, out_arg, fault) ==
    LET out == IF out_arg = NoPath THEN DefaultOut(enc_path) ELSE out_arg
        w == WriteFile(f, out, Decrypt(key, f[enc_path]), DecFault(fault))
    IN  IF w.ok
        THEN [fs |-> w.fs, result |-> "ok", out |-> out, step |-> "none"]
        ELSE Failed(w.fs, "write")

\* Mutant of DecryptBackup: the token is not authenticated against the key.
DecryptBackup_NoAuth(f, enc_path, out_arg, gen, fault) ==
    LET g == GetKey(f, gen, KeyFault(fault))
    IN  IF ~g.ok THEN Failed(g.fs, "key")
        ELSE IF ~ValidKey(g.key) THEN Failed(g.fs, "fernet")
        ELSE IF g.fs[enc_path].kind # "enc" THEN Failed(g.fs, "read")
        ELSE DecryptWrite(g.fs, g.key, enc_path, out_arg, fault)

\* decrypt_backup(encrypted_path, output_path): [fs, result, out, step]; every
\* exception is caught and turned into None (result "fail").
DecryptBackup(f, enc_path, out_arg, gen, fault) ==
    LET g == GetKey(f, gen, KeyFault(fault))
    IN  IF ~g.ok THEN Failed(g.fs, "key")
        ELSE IF ~ValidKey(g.key) THEN Failed(g.fs, "fernet")
        ELSE IF ~Exists(g.fs, enc_path) \/ IsDir(g.fs, enc_path)
             THEN Failed(g.fs, "read")
        ELSE IF ~DecryptOk(g.key, g.fs[enc_path]) THEN Failed(g.fs, "decrypt")
        ELSE DecryptWrite(g.fs, g.key, enc_path, out_arg, fault)

(* --------------------------- restore_backup --------------------------- *)
Push(i, ok) == [cmd |-> "push", item |-> i, ok |-> ok]
Insert(i, ok) == [cmd |-> "insert", item |-> i, ok |-> ok]

\* shutil.unpack_archive(zip_path, temp_extract_dir): the format is read
\* from the file name, the entries from the archive.
Unpack(f, t, zip_path, fault) ==
    IF ~EndsWith(zip_path[1], DotZip) \/ f[zip_path].kind # "zip" \/ fault = "unpack"
    THEN [fs |-> f, ok |-> FALSE]
    ELSE IF fault = "unpack_partial"
         THEN [fs |-> Put(f, ExtractDir(t), Dir(0)), ok |-> FALSE]
         ELSE [fs |-> Put(f, ExtractDir(t), Dir(f[zip_path].d)), ok |-> TRUE]

\* Mutant of PushLoop: a failed push does not end the loop.
PushLoop_Continue(n, pf) ==
    [cmds |-> [i \in 1..n |-> Push(i, i # pf)], ok |-> pf \notin 1..n]

\* The push loop over os.listdir(temp_extract_dir): one adb push per entry,
\* left by the first push that fails (check=True raises). pf is the entry
\* whose push fails, 0 for none.
PushLoop(n, pf) ==
    IF pf \in 1..n
    THEN [cmds |-> [i \in 1..pf |-> Push(i, i < pf)], ok |-> FALSE]
    ELSE [cmds |-> [i \in 1..n |-> Push(i, TRUE)], ok |-> TRUE]

\* Mutant of RestoreFinally: the archive is removed whether or not the
\* call made it.
RestoreFinally_AnyZip(f, t, is_temp_zip, zip_path) ==
    LET f1 == Put(f, ExtractDir(t), Absent)
    IN  IF Exists(f1, zip_path) THEN Put(f1, zip_path, Absent) ELSE f1

\* The finally block of restore_backup.
RestoreFinally(f, t, is_temp_zip, zip_path) ==
    LET f1 == Put(f, ExtractDir(t), Absent)
    IN  IF is_temp_zip /\ Exists(f1, zip_path) THEN Put(f1, zip_path, Absent) ELSE f1

\* Unpack and push, then the finally block:
\* [fs, result, cmds, reports, step].
RestoreUnpackPush(f, t, is_temp_zip, zip_path, fault, pf) ==
    LET u == Unpack(f, t, zip_path, fault)
        l == PushLoop(u.fs[ExtractDir(t)].d, pf)
    IN  IF ~u.ok
        THEN [fs |-> RestoreFinally(u.fs, t, is_temp_zip, zip_path),
              result |-> "fail", cmds |-> <<>>, reports |-> <<>>,
              step |-> "unpack"]
        ELSE [fs |-> RestoreFinally(u.fs, t, is_temp_zip, zip_path),
              result |-> IF l.ok THEN "ok" ELSE "fail", cmds |-> l.cmds,
              reports |-> <<>>, step |-> IF l.ok THEN "none" ELSE "push"]

\* restore_backup(backup_path) of an .enc or .zip artifact at timestamp t.
\* A failed decryption returns before is_temp_zip is bound, so the finally
\* block removes no archive.
RestoreArchive(f, t, backup_path, gen, fault, pf) ==
    IF EndsWith(backup_path[1], DotEnc)
    THEN LET dec == DecryptBackup(f, backup_path, NoPath, gen, fault)
         IN  IF dec.result # "ok"
             THEN [fs |-> RestoreFinally(dec.fs, t, FALSE, backup_path),
                   result |-> "fail", cmds |-> <<>>, reports |-> <<>>,
                   step |-> dec.step]
             ELSE RestoreUnpackPush(dec.fs, t, TRUE, dec.out, fault, pf)
    ELSE RestoreUnpackPush(f, t, FALSE, backup_path, fault, pf)

\* What the call prints or logs about its progress: the number of
\* messages to restore, the running count, the final count, or the
\* exception of the failed command (which holds no count: n = -1).
Report(kind, n) == [kind |-> kind, n |-> n]

\* print(f"Restored {count}/{total}...") after every ProgressEvery-th insert.
Progress(count) ==
    [i \in 1..(count \div ProgressEvery) |-> Report("progress", i * ProgressEvery)]

\* restore_backup of a .json message export: one content insert per
\* record; the first failing insert raises, which ends the loop. pf is
\* the record whose insert fails, 0 for none.
RestoreSms(f, backup_path, pf) ==
    IF f[backup_path].kind # "json"
    THEN [fs |-> f, result |-> "fail", cmds |-> <<>>,
          reports |-> <<Report("error", -1)>>, step |-> "read"]
    ELSE LET total == f[backup_path].d
         IN  IF pf \in 1..total
             THEN [fs |-> f, result |-> "fail",
                   cmds |-> [i \in 1..pf |-> Insert(i, i < pf)],
                   reports |-> <<Report("total", total)>> \o Progress(pf - 1)
                               \o <<Report("error", -1)>>,
                   step |-> "insert"]
             ELSE [fs |-> f, result |-> "ok",
                   cmds |-> [i \in 1..total |-> Insert(i, TRUE)],
                   reports |-> <<Report("total", total)>> \o Progress(total)
                               \o <<Report("restored", total)>>,
                   step |-> "none"]

\* restore_backup of a .vcf contact export: adb push, then the import
\* intent; pf = 1 fails the push, pf = 2 the intent.
RestoreContacts(f, backup_path, pf) ==
    IF ~Exists(f, backup_path) \/ pf = 1
    THEN [fs |-> f, result |-> "fail", cmds |-> <<Push(1, FALSE)>>,
          reports |-> <<>>, step |-> "push"]
    ELSE [fs |-> f, result |-> IF pf = 2 THEN "fail" ELSE "ok",
          cmds |-> <<Push(1, TRUE), [cmd |-> "start", item |-> 1, ok |-> pf # 2]>>,
          reports |-> <<>>, step |-> IF pf = 2 THEN "start" ELSE "none"]

\* restore_backup(backup_path): the artifact kind is read from the suffix.
RestoreBackup(f, t, backup_path, gen, fault, pf) ==
    IF EndsWith(backup_path[1], DotVcf) THEN RestoreContacts(f, backup_path, pf)
    ELSE IF EndsWith(backup_path[1], DotJson) THEN RestoreSms(f, backup_path, pf)
    ELSE RestoreArchive(f, t, backup_path, gen, fault, pf)

(* ------------------------------- state -------------------------------- *)
\* fs       the local files: path -> contents
\* call     the last call: the method, its path argument (for backup_device
\*          the artifact path it computes), the output_path argument of
\*          decrypt_backup, the first step that raised, what it returned
\*          ("ok": a path, a key or True; "fail": None or False; "raise": an
\*          exception reached the caller), the returned path and key
\* cmds     the device commands the last call issued, in order
\* reports  what the last call printed or logged about its progress
\* encrypted_path, output_path   the argument of decrypt_backup and the
\*          default output path computed from it
\* stdout   the output of the content query that backup_contacts or
\*          backup_sms parses
\* vcard_content, sms_list   the contacts and messages parsed from it
NoKey == Absent
Call(op, path, arg, step, result, out, key) ==
    [op |-> op, path |-> path, arg |-> arg, step |-> step, result |-> result,
     out |-> out, key |-> key]

\* The external failures a call may meet, "none" for no failure. A failure
\* is drawn only for a step the call can come to: the key file is written
\* only when there is none, the destination folder made only when there
\* is none, and only an .enc artifact is decrypted.
KeyFaults(f) ==
    {"none"} \cup (IF Exists(f, KeyPath) THEN {} ELSE {"key_open", "key_write"})
BackupFaults(f) ==
    KeyFaults(f) \cup (IF Exists(f, DestFolder) THEN {} ELSE {"makedirs"})
    \cup {"pull", "pull_partial", "archive", "archive_partial", "enc_open",
          "enc_write"}
DecryptFaults(f) == KeyFaults(f) \cup {"dec_open", "dec_write"}
RestoreFaults(f, p) ==
    (IF EndsWith(p[1], DotEnc) THEN DecryptFaults(f) ELSE {"none"})
    \cup {"unpack", "unpack_partial"}

\* The files a caller hands to decrypt_backup and to restore_backup, and
\* the output_path argument: None, or the path of a file that exists.
DecryptInputs == EncPaths
DecryptOutputs == {NoPath, KeyPath}
RestoreInputs == EncPaths \cup ZipPaths
ExportInputs == {SmsPath, VcfPath}

\* Fernet.generate_key() is only called when there is no key file.
NewKeys(f) == IF Exists(f, KeyPath) THEN {1} ELSE Keys

\* The files on disk before the first call: a key file (or none, or one
\* that holds no key), the destination folder (or none) and an older
\* encrypted archive (or none, or a corrupted one).
InitFiles ==
    {[p \in Paths |->
        CASE p = KeyPath -> key
          [] p = DestFolder -> dest
          [] p = OldEnc -> old
          [] OTHER -> Absent] :
        key \in {Absent, Partial} \cup {Key(k) : k \in Keys},
        dest \in {Absent, Dir(0)},
        old \in {Absent, Partial} \cup {Enc(k, Zip(1)) : k \in Keys}}

NoCall == Call("none", NoPath, NoPath, "none", "ok", NoPath, NoKey)

Init ==
    /\ fs \in InitFiles
    /\ call = NoCall
    /\ cmds = <<>>
    /\ reports = <<>>
    /\ encrypted_path = <<>>
    /\ output_path = <<>>
    /\ stdout = <<>>
    /\ vcard_content = <<>>
    /\ sms_list = <<>>

GetKeyCall ==
    \E gen \in NewKeys(fs), fault \in KeyFaults(fs) :
        LET r == GetKey(fs, gen, KeyFault(fault))
        IN  /\ fs' = r.fs
            /\ call' = Call("_get_key", KeyPath, NoPath, IF r.ok THEN "none" ELSE "key",
                            IF r.ok THEN "ok" ELSE "raise", NoPath,
                            IF r.ok THEN r.key ELSE NoKey)
            /\ cmds' = <<>>
            /\ reports' = <<>>
            /\ UNCHANGED <<encrypted_path, output_path, stdout, vcard_content, sms_list>>

LoadKeyCall ==
    \E gen \in NewKeys(fs), fault \in {"none", "key_open", "key_write"} :
        LET r == LoadKey(fs, KeyPath, gen, KeyFault(fault))
        IN  /\ fs' = r.fs
            /\ call' = Call("_load_key", KeyPath, NoPath, IF r.ok THEN "none" ELSE "key",
                            IF r.ok THEN "ok" ELSE "raise", NoPath,
                            IF r.ok THEN r.key ELSE NoKey)
            /\ cmds' = <<>>
            /\ reports' = <<>>
            /\ UNCHANGED <<encrypted_path, output_path, stdout, vcard_content, sms_list>>

BackupDeviceCall ==
    \E t \in Times, src \in {"dir", "file"}, gen \in NewKeys(fs),
       fault \in BackupFaults(fs) :
      \E d \in IF src = "dir" THEN Data ELSE {0} :
        LET r == BackupDevice(fs, t, src, d, gen, fault)
        IN  /\ fs' = r.fs
            /\ call' = Call("backup_device", EncPath(t), NoPath, r.step,
                            r.result, r.out, NoKey)
            /\ cmds' = <<>>
            /\ reports' = <<>>
            /\ UNCHANGED <<encrypted_path, output_path, stdout, vcard_content, sms_list>>

DecryptBackupCall ==
    \E p \in DecryptInputs, o \in DecryptOutputs, gen \in NewKeys(fs),
       fault \in DecryptFaults(fs) :
        LET r == DecryptBackup(fs, p, o, gen, fault)
        IN  /\ fs' = r.fs
            /\ call' = Call("decrypt_backup", p, o, r.step, r.result, r.out, NoKey)
            /\ cmds' = <<>>
            /\ reports' = <<>>
            /\ UNCHANGED <<encrypted_path, output_path, stdout, vcard_content, sms_list>>

RestoreBackupCall(inputs, failures) ==
    \E t \in Times, p \in inputs, gen \in NewKeys(fs) :
      \E fault \in RestoreFaults(fs, p) :
      \E pf \in IF fault = "none" THEN failures ELSE {0} :
        LET r == RestoreBackup(fs, t, p, gen, fault, pf)
        IN  /\ fs' = r.fs
            /\ call' = Call("restore_backup", p, NoPath, r.step, r.result, NoPath,
                            NoKey)
            /\ cmds' = r.cmds
            /\ reports' = r.reports
            /\ UNCHANGED <<encrypted_path, output_path, stdout, vcard_content, sms_list>>

\* restore_backup of an .enc or .zip artifact.
RestoreArchiveCall == RestoreBackupCall(RestoreInputs, 0..MaxEntries)

Next ==
    \/ GetKeyCall
    \/ LoadKeyCall
    \/ BackupDeviceCall
    \/ DecryptBackupCall
    \/ RestoreArchiveCall

Spec == Init /\ [][Next]_vars

(* ------------------- restore of message and contact exports ------------ *)
ExportFiles ==
    {[p \in Paths |->
        CASE p = SmsPath -> sms
          [] p = VcfPath -> vcf
          [] OTHER -> Absent] :
        sms \in {Absent, Partial} \cup {Json(n) : n \in 0..MaxMsgs},
        vcf \in {Absent, Vcf}}

InitExport ==
    /\ fs \in ExportFiles
    /\ call = NoCall
    /\ cmds = <<>>
    /\ reports = <<>>
    /\ encrypted_path = <<>>
    /\ output_path = <<>>
    /\ stdout = <<>>
    /\ vcard_content = <<>>
    /\ sms_list = <<>>

\* restore_backup of a .json or .vcf export; only fault "none" is drawn,
\* the failing command is pf.
RestoreExportCall ==
    \E t \in Times, p \in ExportInputs, pf \in 0..MaxMsgs :
        LET r == RestoreBackup(fs, t, p, 1, "none", pf)
        IN  /\ fs' = r.fs
            /\ call' = Call("restore_backup", p, NoPath, r.step, r.result, NoPath,
                            NoKey)
            /\ cmds' = r.cmds
            /\ reports' = r.reports
            /\ UNCHANGED <<encrypted_path, output_path, stdout, vcard_content, sms_list>>

NextExport == RestoreExportCall

SpecExport == InitExport /\ [][NextExport]_vars

(* --------------------- the default output path ------------------------ *)
Alphabet == {".", "e", "n", "c", "/", "a"}

RECURSIVE Strings(_)
\* The strings over Alphabet of length n.
Strings(n) ==
    IF n = 0 THEN {<<>>}
    ELSE {<<ch>> \o s : ch \in Alphabet, s \in Strings(n - 1)}

\* Every path of at most MaxPrefix characters followed by ".enc".
EncryptedPaths ==
    UNION {{s \o DotEnc : s \in Strings(n)} : n \in 0..MaxPrefix}

InitPath ==
    /\ fs = [p \in Paths |-> Absent]
    /\ call = NoCall
    /\ cmds = <<>>
    /\ reports = <<>>
    /\ encrypted_path \in EncryptedPaths
    /\ output_path = <<>>
    /\ stdout = <<>>
    /\ vcard_content = <<>>
    /\ sms_list = <<>>

\* decrypt_backup(encrypted_path) computes its output path (lines 112-113).
DefaultOutputPath ==
    /\ output_path = <<>>
    /\ output_path' = DefaultOut(<<encrypted_path, 0>>)[1]
    /\ UNCHANGED <<fs, call, cmds, reports, encrypted_path>>
    /\ UNCHANGED <<stdout, vcard_content, sms_list>>

NextPath == DefaultOutputPath

SpecPath == InitPath /\ [][NextPath]_vars

(* ------------------- parsing of content-query output ------------------ *)
\* The output of "adb shell content query" is a sequence of lexemes: each
\* marker the parsers look for ("Row:", "display_name=", ...) is one
\* lexeme, as are the comma, the blank, the line break and a letter of
\* value text.  No marker overlaps another marker or value text, so every
\* substring test and slice below is the one Python makes on the characters.
RowMark == <<"Row:">>
DisplayNameMark == <<"display_name=">>
Data1Mark == <<"data1=">>
AddressMark == <<"address=">>
DateMark == <<"date=">>
TypeMark == <<"type=">>
BodyMark == <<"body=">>
Comma == <<",">>
Newline == <<"\n">>
Whitespace == {" ", "\n"}

\* pat in s
Contains(s, pat) == \E i \in 1..Len(s) : MatchAt(s, i, pat)

\* s.find(pat, start): the first index at or after start where pat
\* occurs, 0 when there is none (indices count from 1).
Find(s, pat, start) ==
    IF \E i \in start..Len(s) : MatchAt(s, i, pat)
    THEN CHOOSE i \in start..Len(s) :
             /\ MatchAt(s, i, pat)
             /\ \A j \in start..(i - 1) : ~MatchAt(s, j, pat)
    ELSE 0

\* s.strip()
Strip(s) ==
    IF \A i \in 1..Len(s) : s[i] \in Whitespace THEN <<>>
    ELSE LET first == CHOOSE i \in 1..Len(s) :
                          /\ s[i] \notin Whitespace
                          /\ \A j \in 1..(i - 1) : s[j] \in Whitespace
             last == CHOOSE i \in 1..Len(s) :
                         /\ s[i] \notin Whitespace
                         /\ \A j \in (i + 1)..Len(s) : s[j] \in Whitespace
         IN  SubSeq(s, first, last)

RECURSIVE SplitFrom(_, _, _, _)
SplitFrom(s, i, cur, sep) ==
    IF i > Len(s) THEN <<cur>>
    ELSE IF MatchAt(s, i, sep)
         THEN <<cur>> \o SplitFrom(s, i + Len(sep), <<>>, sep)
         ELSE SplitFrom(s, i + 1, Append(cur, s[i]), sep)

\* s.split(sep)
Split(s, sep) == SplitFrom(s, 1, <<>>, sep)

\* s.split(sep)[-1]
LastPiece(s, sep) == LET pieces == Split(s, sep) IN pieces[Len(pieces)]

\* result.stdout.strip().split('\n')  (lines 146, 210)
Lines(out) == Split(Strip(out), Newline)

RECURSIVE ScanParts(_, _, _, _)
\* The loop over the comma-separated parts of a row (lines 155-159):
\* [name, phone] after parts i.. have been looked at.
ScanParts(parts, i, name, phone) ==
    IF i > Len(parts) THEN [name |-> name, phone |-> phone]
    ELSE IF Contains(parts[i], DisplayNameMark)
         THEN ScanParts(parts, i + 1, Strip(LastPiece(parts[i], DisplayNameMark)),
                        phone)
         ELSE IF Contains(parts[i], Data1Mark)
              THEN ScanParts(parts, i + 1, name,
                             Strip(LastPiece(parts[i], Data1Mark)))
              ELSE ScanParts(parts, i + 1, name, phone)

\* What one line adds to vcard_content (lines 150-169): the card of the
\* row, with its FN and TEL;CELL values, or nothing.
ContactOfLine(line) ==
    IF ~Contains(line, RowMark) THEN <<>>
    ELSE LET c == ScanParts(Split(line, Comma), 1, <<>>, <<>>)
         IN  IF c.name # <<>> /\ c.phone # <<>>
             THEN <<[FN |-> c.name, TEL |-> c.phone]>>
             ELSE <<>>

RECURSIVE ContactsFrom(_, _)
ContactsFrom(lines, i) ==
    IF i > Len(lines) THEN <<>>
    ELSE ContactOfLine(lines[i]) \o ContactsFrom(lines, i + 1)

\* vcard_content built by backup_contacts from the query output (146-169).
ParseContacts(out) == ContactsFrom(Lines(out), 1)

ContactAlphabet == {"Row:", "display_name=", "data1=", ",", " ", "a"}

\* Every query output of at most MaxContactOutput lexemes.
InitContacts ==
    /\ \E n \in 0..MaxContactOutput : stdout \in [1..n -> ContactAlphabet]
    /\ fs = [p \in Paths |-> Absent]
    /\ call = NoCall
    /\ cmds = <<>>
    /\ reports = <<>>
    /\ encrypted_path = <<>>
    /\ output_path = <<>>
    /\ vcard_content = <<>>
    /\ sms_list = <<>>

\* backup_contacts turns the query output into vcard_content.
BackupContactsParse ==
    /\ call = NoCall
    /\ call' = Call("backup_contacts", NoPath, NoPath, "none", "ok", NoPath, NoKey)
    /\ vcard_content' = ParseContacts(stdout)
    /\ UNCHANGED <<fs, cmds, reports, encrypted_path, output_path, stdout,
                   sms_list>>

NextContacts == BackupContactsParse

SpecContacts == InitContacts /\ [][NextContacts]_vars

(* message rows (backup_sms) *)
DefaultMsg_EmptyDate ==
    [address |-> <<>>, date |-> <<>>, body |-> <<>>, type |-> <<"1">>]

\* msg before the markers are looked for (line 216)
DefaultMsg ==
    [address |-> <<>>, date |-> <<"0">>, body |-> <<>>, type |-> <<"1">>]

\* The value of address, date or type (lines 219-235): when the marker is
\* in the line, the text from behind its first occurrence up to the next
\* comma, or to the end of the line, stripped; else the default.
Field(line, mark, default) ==
    IF Contains(line, mark)
    THEN LET start == Find(line, mark, 1) + Len(mark)
             comma == Find(line, Comma, start)
             end == IF comma = 0 THEN Len(line) + 1 ELSE comma
         IN  Strip(SubSeq(line, start, end - 1))
    ELSE default

BodyField_ToComma(line, default) == Field(line, BodyMark, default)

\* The value of body (lines 237-240): the text from behind the first
\* "body=" to the end of the line, stripped.
BodyField(line, default) ==
    IF Contains(line, BodyMark)
    THEN Strip(SubSeq(line, Find(line, BodyMark, 1) + Len(BodyMark), Len(line)))
    ELSE default

\* msg after the markers of a row were looked for (lines 216-242)
MsgOfLine(line) ==
    [address |-> Field(line, AddressMark, DefaultMsg.address),
     date |-> Field(line, DateMark, DefaultMsg.date),
     body |-> BodyField(line, DefaultMsg.body),
     type |-> Field(line, TypeMark, DefaultMsg.type)]

\* What one line adds to sms_list (lines 214-245)
SmsOfLine(line) ==
    IF ~Contains(line, RowMark) THEN <<>>
    ELSE LET msg == MsgOfLine(line)
         IN  IF msg.address # <<>> /\ msg.body # <<>> THEN <<msg>> ELSE <<>>

RECURSIVE SmsFrom(_, _)
SmsFrom(lines, i) ==
    IF i > Len(lines) THEN <<>>
    ELSE SmsOfLine(lines[i]) \o SmsFrom(lines, i + 1)

\* sms_list built by backup_sms from the query output (lines 210-245)
ParseSms(out) == SmsFrom(Lines(out), 1)

SmsAlphabet == {"Row:", "address=", "date=", "type=", "body=", ",", " ", "a"}

\* Every query output of at most MaxSmsOutput lexemes, and each of them
\* behind a leading "Row:".
InitSms ==
    /\ \E n \in 0..MaxSmsOutput, row \in {<<>>, RowMark} :
           \E rest \in [1..n -> SmsAlphabet] : stdout = row \o rest
    /\ fs = [p \in Paths |-> Absent]
    /\ call = NoCall
    /\ cmds = <<>>
    /\ reports = <<>>
    /\ encrypted_path = <<>>
    /\ output_path = <<>>
    /\ vcard_content = <<>>
    /\ sms_list = <<>>

\* backup_sms turns the query output into sms_list.
BackupSmsParse ==
    /\ call = NoCall
    /\ call' = Call("backup_sms", NoPath, NoPath, "none", "ok", NoPath, NoKey)
    /\ sms_list' = ParseSms(stdout)
    /\ UNCHANGED <<fs, cmds, reports, encrypted_path, output_path, stdout,
                   vcard_content>>

NextSms == BackupSmsParse

SpecSms == InitSms /\ [][NextSms]_vars

(* ------------------------------ claims ------------------------------- *)
IsArchivePath(p) == EndsWith(p[1], DotEnc) \/ EndsWith(p[1], DotZip)

\* C1: after every backup_device call, whichever step failed or none,
\* neither the temporary workspace temp_backup_<id>_<t> nor the
\* intermediate archive temp_backup_<id>_<t>.zip exists.
C1_BackupLeavesNoTemp ==
    call.op = "backup_device" =>
        /\ ~Exists(fs, TempDir(call.path[2]))
        /\ ~Exists(fs, TempZip(call.path[2]))

\* C2: after every restore_backup call on an .enc or .zip artifact no
\* extraction workspace temp_restore_<id>_<t> exists, and a call on an .enc
\* artifact leaves no plaintext archive that it wrote: at the default
\* decrypted path there is no file, or the file that was there before.
C2_RestoreLeavesNoTemp ==
    [][(call'.op = "restore_backup" /\ IsArchivePath(call'.path)) =>
         /\ \A t \in Times : ~Exists(fs', ExtractDir(t))
         /\ EndsWith(call'.path[1], DotEnc) =>
                \/ ~Exists(fs', DefaultOut(call'.path))
                \/ fs'[DefaultOut(call'.path)] = fs[DefaultOut(call'.path)]]_vars

\* C3: a backup_device call that returns None leaves no artifact of its
\* own in dest_folder: at backup_<id>_<t>.enc there is no file, or the
\* file that was there before the call.
C3_FailedBackupLeavesNoArtifact ==
    [][(call'.op = "backup_device" /\ call'.result = "fail") =>
         \/ ~Exists(fs', call'.path)
         \/ fs'[call'.path] = fs[call'.path]]_vars

\* C4: on an existing key file each key accessor (_get_key, _load_key)
\* returns exactly the bytes stored in the file and leaves the file
\* unchanged.
C4_KeyAccessorsIdempotent ==
    [][(call'.op \in {"_get_key", "_load_key"} /\ Exists(fs, call'.path)) =>
         /\ fs'[call'.path] = fs[call'.path]
         /\ call'.result = "ok" => call'.key = fs[call'.path]]_vars

PipelineOps == {"backup_device", "decrypt_backup", "restore_backup"}

\* The file at p is a token made under the key that the key file holds.
GoodToken(f, p) ==
    ValidKey(f[KeyPath]) /\ f[p].kind = "enc" /\ f[p].k = f[KeyPath].k

\* The token at p was made under another key than the one in the key
\* file, or the file at p has been tampered with.
WrongKeyOrTampered(f, p) ==
    \/ f[p].kind = "enc" /\ Exists(f, KeyPath) /\ f[KeyPath] # Key(f[p].k)
    \/ f[p].kind = "partial"

\* C5: decrypt_backup of a token made under another key than the one in
\* the key file, or of a tampered file, returns None and writes plaintext
\* to no file.
C5_DecryptFailsClosed ==
    [][(call'.op = "decrypt_backup" /\ WrongKeyOrTampered(fs, call'.path)) =>
         /\ call'.result = "fail"
         /\ \A p \in Paths : fs'[p].kind = "zip" => fs'[p] = fs[p]]_vars

C5_Witness ==
    /\ call.op = "decrypt_backup"
    /\ call.step = "decrypt"
    /\ fs[call.path].kind = "enc"
    /\ ValidKey(fs[KeyPath])
    /\ fs[KeyPath].k # fs[call.path].k

\* The artifact of a successful backup_device under the present key exists.
AfterBackup(f) == \E t \in Times : GoodToken(f, EncPath(t))

\* The path decrypt_backup writes to.
OutputOf(c) == IF c.arg = NoPath THEN DefaultOut(c.path) ELSE c.arg

\* C6 as stated: once a backup_device call has succeeded, no later
\* backup_device, decrypt_backup or restore_backup call changes the key
\* file, and decrypt_backup of the artifact succeeds and writes exactly the
\* archive bytes that were encrypted into it.
C6_KeyNeverChanged ==
    [][(AfterBackup(fs) /\ call'.op \in PipelineOps) =>
         /\ fs'[KeyPath] = fs[KeyPath]
         /\ (call'.op = "decrypt_backup" /\ GoodToken(fs, call'.path)) =>
                /\ call'.result = "ok"
                /\ fs'[call'.out] = Zip(fs[call'.path].d)]_vars

\* C6 amended: a successful backup_device leaves a valid key in the key
\* file and an artifact made under it; a key file that holds a valid key
\* is not changed by any backup_device or restore_backup call, nor by a
\* decrypt_backup call whose output path is not the key file; and
\* decrypt_backup of an artifact made under the key in the key file
\* succeeds unless opening or writing its output file fails, and then has
\* written exactly the archive bytes that were encrypted into the
\* artifact.
C6_KeyStableRoundTrip ==
    [][/\ (call'.op = "backup_device" /\ call'.result = "ok") =>
             /\ call'.out = call'.path
             /\ GoodToken(fs', call'.out)
       /\ (/\ ValidKey(fs[KeyPath])
           /\ \/ call'.op \in {"backup_device", "restore_backup"}
              \/ call'.op = "decrypt_backup" /\ call'.arg # KeyPath) =>
             fs'[KeyPath] = fs[KeyPath]
       /\ (call'.op = "decrypt_backup" /\ GoodToken(fs, call'.path)) =>
             \/ call'.result = "fail" /\ call'.step = "write"
             \/ /\ call'.result = "ok"
                /\ call'.out = OutputOf(call')
                /\ fs'[call'.out] = Zip(fs[call'.path].d)]_vars

C6_Witness ==
    /\ call.op = "decrypt_backup"
    /\ call.result = "ok"
    /\ call.path \in {EncPath(t) : t \in Times}
    /\ GoodToken(fs, call.path)
    /\ fs[call.path].d > 0
    /\ fs[call.out] = Zip(fs[call.path].d)

\* C8: backup_device, decrypt_backup and restore_backup return a failure
\* indicator for a failure of any step and never let an exception reach
\* the caller.
C8_NoExceptionPropagates == call.op \in PipelineOps => call.result # "raise"

\* C9: restore_backup of a .json export issues one content insert per
\* record in file order; a failing insert is the last command issued, the
\* call then returns failure, and the number of records inserted before
\* the failure is reported.
C9_SmsRestoreReportsCount ==
    (/\ call.op = "restore_backup"
     /\ EndsWith(call.path[1], DotJson)
     /\ fs[call.path].kind = "json") =>
        LET n == Len(cmds)
        IN  /\ \A i \in 1..n : cmds[i].cmd = "insert" /\ cmds[i].item = i
            /\ \A i \in 1..(n - 1) : cmds[i].ok
            /\ call.result = "ok" =>
                   n = fs[call.path].d /\ \A i \in 1..n : cmds[i].ok
            /\ (n > 0 /\ ~cmds[n].ok) =>
                   /\ call.result = "fail"
                   /\ \E i \in 1..Len(reports) :
                          /\ reports[i].kind \in {"progress", "restored", "error"}
                          /\ reports[i].n = n - 1

\* C10: restore_backup of an .enc or .zip artifact issues one adb push per
\* top-level entry of the unpacked workspace; no push follows a failed
\* push and the call then returns failure; the call returns success only
\* if every top-level entry was pushed successfully.
C10_PushPerEntry ==
    (call.op = "restore_backup" /\ IsArchivePath(call.path)) =>
        LET n == Len(cmds)
        IN  /\ \A i \in 1..n : cmds[i].cmd = "push" /\ cmds[i].item = i
            /\ n <= fs[call.path].d
            /\ \A i \in 1..(n - 1) : cmds[i].ok
            /\ (n > 0 /\ ~cmds[n].ok) => call.result = "fail"
            /\ call.result = "ok" =>
                   n = fs[call.path].d /\ \A i \in 1..n : cmds[i].ok

C10_Witness ==
    /\ call.op = "restore_backup"
    /\ IsArchivePath(call.path)
    /\ call.result = "fail"
    /\ Len(cmds) = 1
    /\ ~cmds[1].ok
    /\ fs[call.path].d = 2

\* C7: the default output path of decrypt_backup is the encrypted path
\* with its final ".enc" replaced by ".zip" and every character in front
\* of that suffix unchanged.
C7_OnlySuffixReplaced ==
    output_path # <<>> =>
        output_path = SubSeq(encrypted_path, 1, Len(encrypted_path) - Len(DotEnc))
                      \o DotZip

\* The text after the first occurrence of the marker up to the next comma,
\* or to the end of the line when no comma follows, trimmed; empty when the
\* line does not hold the marker.
ValueAfter(line, mark) ==
    IF ~Contains(line, mark) THEN <<>>
    ELSE LET start == Find(line, mark, 1) + Len(mark)
             comma == Find(line, Comma, start)
             end == IF comma = 0 THEN Len(line) + 1 ELSE comma
         IN  Strip(SubSeq(line, start, end - 1))

\* The card C11 promises for one line of the query output.
PromisedContact(line) ==
    IF /\ Contains(line, RowMark)
       /\ ValueAfter(line, DisplayNameMark) # <<>>
       /\ ValueAfter(line, Data1Mark) # <<>>
    THEN <<[FN |-> ValueAfter(line, DisplayNameMark),
            TEL |-> ValueAfter(line, Data1Mark)]>>
    ELSE <<>>

RECURSIVE PromisedContacts(_, _)
PromisedContacts(lines, i) ==
    IF i > Len(lines) THEN <<>>
    ELSE PromisedContact(lines[i]) \o PromisedContacts(lines, i + 1)

\* C11: for every line holding "Row:" the contact parser takes the name
\* as the text after "display_name=" up to the next comma or the end of
\* the line, trimmed, and the phone likewise after "data1="; it emits a
\* contact exactly when both are non-empty, and ignores lines without
\* "Row:".
C11_ContactParser ==
    call.op = "backup_contacts" =>
        vcard_content = PromisedContacts(Lines(stdout), 1)

\* The text after the first occurrence of the marker to the end of the
\* line, trimmed; empty when the line does not hold the marker.
RestAfter(line, mark) ==
    IF ~Contains(line, mark) THEN <<>>
    ELSE Strip(SubSeq(line, Find(line, mark, 1) + Len(mark), Len(line)))

\* The record C12 promises for a line without "date=" and "type=".
PromisedMessage(line) ==
    IF /\ Contains(line, RowMark)
       /\ ValueAfter(line, AddressMark) # <<>>
       /\ RestAfter(line, BodyMark) # <<>>
    THEN <<[address |-> ValueAfter(line, AddressMark), date |-> <<"0">>,
            body |-> RestAfter(line, BodyMark), type |-> <<"1">>]>>
    ELSE <<>>

RECURSIVE PromisedMessages(_, _)
PromisedMessages(lines, i) ==
    IF i > Len(lines) THEN <<>>
    ELSE PromisedMessage(lines[i]) \o PromisedMessages(lines, i + 1)

\* The lines that are rows with a non-empty address and a non-empty body.
FullRows(lines) ==
    {i \in 1..Len(lines) :
        /\ Contains(lines[i], RowMark)
        /\ ValueAfter(lines[i], AddressMark) # <<>>
        /\ RestAfter(lines[i], BodyMark) # <<>>}

\* C12: a "Row:" line with non-empty "address=" and "body=" values and
\* neither "date=" nor "type=" yields a record with that address and body,
\* date "0" and type "1"; a row whose address or body is empty or absent
\* yields no record.
C12_MessageDefaults ==
    call.op = "backup_sms" =>
        /\ (~Contains(stdout, DateMark) /\ ~Contains(stdout, TypeMark)) =>
               sms_list = PromisedMessages(Lines(stdout), 1)
        /\ \A i \in 1..Len(sms_list) :
               sms_list[i].address # <<>> /\ sms_list[i].body # <<>>
        /\ Len(sms_list) <= Cardinality(FullRows(Lines(stdout)))

C12_Witness ==
    /\ call.op = "backup_sms"
    /\ ~Contains(stdout, DateMark)
    /\ ~Contains(stdout, TypeMark)
    /\ Contains(stdout, Comma)
    /\ sms_list = <<[address |-> <<"a">>, date |-> <<"0">>, body |-> <<"a">>,
                     type |-> <<"1">>]>>

\* C13: for every "Row:" line holding "body=" the parser sets body to
\* everything behind the marker to the end of the line, trimmed and not cut
\* at a comma, while address, date and type each end at the next comma
\* behind their marker; the record of a row with a non-empty address and
\* body carries these values into sms_list.
C13_BodyToEndOfLine ==
    call.op = "backup_sms" =>
        \A i \in 1..Len(Lines(stdout)) :
            LET line == Lines(stdout)[i]
                msg == MsgOfLine(line)
            IN  (Contains(line, RowMark) /\ Contains(line, BodyMark)) =>
                    /\ msg.body = RestAfter(line, BodyMark)
                    /\ Contains(line, AddressMark) =>
                           msg.address = ValueAfter(line, AddressMark)
                    /\ Contains(line, DateMark) =>
                           msg.date = ValueAfter(line, DateMark)
                    /\ Contains(line, TypeMark) =>
                           msg.type = ValueAfter(line, TypeMark)
                    /\ (msg.address # <<>> /\ msg.body # <<>>) =>
                           \E j \in 1..Len(sms_list) :
                               /\ sms_list[j].body = RestAfter(line, BodyMark)
                               /\ sms_list[j].address = msg.address
                               /\ sms_list[j].date = msg.date
                               /\ sms_list[j].type = msg.type

C13_Witness ==
    /\ call.op = "backup_sms"
    /\ Len(sms_list) = 1
    /\ sms_list[1].address = <<"a">>
    /\ Contains(sms_list[1].body, Comma)
    /\ Find(stdout, Comma, 1) < Find(stdout, BodyMark, 1)

\* C14: when the device pull fails, backup_device returns None and has run
\* no later step: no archive exists, the key file is as it was before the
\* call (an absent key file is still absent), and no artifact in
\* dest_folder was written.
C14_PullFailureAborts ==
    [][(call'.op = "backup_device" /\ call'.step = "pull") =>
         /\ call'.result = "fail"
         /\ ~Exists(fs', TempZip(call'.path[2]))
         /\ fs'[KeyPath] = fs[KeyPath]
         /\ \A t \in Times : fs'[EncPath(t)] = fs[EncPath(t)]]_vars

\* C15: restore_backup of an .enc artifact removes only files it made
\* itself: every local file that existed before the call, the one at the
\* default decrypted path included, exists with its contents unchanged
\* after the call, whether the restore succeeded or failed.
C15_RestoreKeepsOtherFiles ==
    [][(call'.op = "restore_backup" /\ EndsWith(call'.path[1], DotEnc)) =>
         \A p \in Paths : Exists(fs, p) => fs'[p] = fs[p]]_vars

\* C16: restore_backup of an existing .zip or .enc artifact leaves the
\* file at backup_path in place with unchanged contents on every exit
\* path; the only file it removes is the plaintext archive at the default
\* decrypted path of an .enc input.
C16_InputArtifactKept ==
    [][(/\ call'.op = "restore_backup"
        /\ IsArchivePath(call'.path)
        /\ Exists(fs, call'.path)) =>
         /\ fs'[call'.path] = fs[call'.path]
         /\ \A p \in Paths :
                (Exists(fs, p) /\ ~Exists(fs', p)) =>
                    /\ EndsWith(call'.path[1], DotEnc)
                    /\ p = DefaultOut(call'.path)]_vars

C16_Witness ==
    /\ call.op = "restore_backup"
    /\ EndsWith(call.path[1], DotZip)
    /\ fs[call.path].kind = "zip"
    /\ Len(cmds) > 0

====
